---- MODULE Spec2Model ----
(***************************************************************************)
(* Bare-metal cluster components of gtctl: metaSrv and frontend.           *)
(* One behaviour follows one component instance (NewMetaSrv / NewFrontend) *)
(* through calls of Start, IsRunning and BuildArgs.  Start is split at the *)
(* points where it calls out (EnsureDir, runBinary, select, http.Get), so  *)
(* that cancellation of the context and ticks of the ticker interleave     *)
(* with it as they do at run time.                                         *)
(***************************************************************************)
EXTENDS Integers, Sequences, FiniteSets, TLC

(* Bounds of the model. *)
MaxReplicas == 2
MaxStarts == 2

VARIABLES
    kind,           \* which ClusterComponent this instance is: Name()
    config,         \* *config.MetaSrv / *config.Frontend (frontend: with metaSrvAddr)
    useMemoryMeta,  \* metaSrv.useMemoryMeta
    logsDirs,       \* allocatedDirs.logsDirs
    pidsDirs,       \* allocatedDirs.pidsDirs
    procs,          \* RunOptions handed to runBinary that were launched
    fs,             \* directories that exist
    op,             \* the method in progress: "none", "Start", "IsRunning"
    pc,             \* position inside the method in progress
    i,              \* Start's loop index
    ctxDone,        \* ctx.Done() is closed
    tick,           \* ticker.C holds a tick
    startErr,       \* what the last Start returned ("none" while running)
    j,              \* IsRunning's loop index
    reqs,           \* URLs the IsRunning in progress (or last) has requested
    resps,          \* responses it got, in order
    running,        \* whether the last IsRunning has returned, and what
    args,           \* what the last BuildArgs call returned
    starts,         \* number of Start calls so far
    base,           \* lengths of logsDirs, pidsDirs, procs when Start was called
    cancelPhase,    \* where the current Start was when ctx was cancelled
    failure,        \* the step of the current Start that failed, and its error
    checked         \* the current Start has called IsRunning

vars == <<kind, config, useMemoryMeta, logsDirs, pidsDirs, procs, fs, op, pc, i,
          ctxDone, tick, startErr, j, reqs, resps, running, args, starts, base,
          cancelPhase, failure, checked>>

(***************************************************************************)
(* Strings, addresses, paths                                               *)
(***************************************************************************)
Hosts == {"127.0.0.1", "0.0.0.0"}
BasePorts == {3002, 4000}
Ports == {b + k : b \in BasePorts, k \in 0..MaxReplicas}

JoinHostPort(host, port) == host \o ":" \o port

\* The addresses there are: every host with every port, joined.
PortStrings == {ToString(p) : p \in Ports}
Joined == [hp \in Hosts \X PortStrings |-> JoinHostPort(hp[1], hp[2])]
Parses(s) == \E hp \in DOMAIN Joined : Joined[hp] = s
Parsed(s) == CHOOSE hp \in DOMAIN Joined : Joined[hp] = s

\* net.SplitHostPort: the host and port that join to s, or an error.
SplitHostPort(s) ==
    IF Parses(s)
    THEN [host |-> Parsed(s)[1], port |-> Parsed(s)[2], err |-> FALSE]
    ELSE [host |-> "", port |-> "", err |-> TRUE]

\* strconv.Atoi on a port string.
PortNumber == [ps \in PortStrings |-> CHOOSE n \in Ports : ToString(n) = ps]
Atoi(s) == IF s \in PortStrings THEN PortNumber[s] ELSE 0

\* FormatAddrArg: baseAddr with its port incremented by nodeId; an address
\* that does not parse yields a string that does not parse either.
FormatAddrArg(addr, nodeId) ==
    LET hp == SplitHostPort(addr)
    IN IF hp.err THEN ""
       ELSE JoinHostPort(hp.host, ToString(Atoi(hp.port) + nodeId))

GenerateAddrArg(flag, addr, nodeId, as) ==
    Append(as, flag \o "=" \o FormatAddrArg(addr, nodeId))

DefaultLogLevel == "info"
DefaultBindAddr == JoinHostPort("127.0.0.1", "3002")

WorkingDirs == [LogsDir |-> "/gt/logs", PidsDir |-> "/gt/pids"]

PathJoin(dir, name) == dir \o "/" \o name

\* DirName with the replica index dropped.
DirNameNoIndex(n) == kind

DirName(n) == kind \o "." \o ToString(n)

LogDir(n) == PathJoin(WorkingDirs.LogsDir, DirName(n))
PidDir(n) == PathJoin(WorkingDirs.PidsDir, DirName(n))

(***************************************************************************)
(* Configurations                                                          *)
(***************************************************************************)
HTTPAddrs == {"127.0.0.1:4000", "not-an-address"}
ConfigPaths == {"", "/gt/conf.toml"}

\* The bind address set together with a configuration file, if any.
BindAddrOf(c) == IF c = "" THEN "" ELSE "0.0.0.0:3002"

MetaSrvConfigs ==
    {[Replicas |-> n, HTTPAddr |-> a, Config |-> c, BindAddr |-> BindAddrOf(c),
      LogLevel |-> "", StoreAddr |-> "127.0.0.1:2379",
      ServerAddr |-> "0.0.0.0:3002"] :
        n \in 0..MaxReplicas, a \in HTTPAddrs, c \in ConfigPaths}

FrontendConfigs ==
    {[Replicas |-> n, HTTPAddr |-> a, Config |-> c,
      LogLevel |-> "debug", GRPCAddr |-> "0.0.0.0:4000",
      MysqlAddr |-> "0.0.0.0:4000", PostgresAddr |-> "0.0.0.0:4000",
      UserProvider |-> "", metaSrvAddr |-> "127.0.0.1:3002"] :
        n \in 0..MaxReplicas, a \in HTTPAddrs, c \in ConfigPaths}

(***************************************************************************)
(* BuildArgs                                                               *)
(***************************************************************************)
LogLevel == IF config.LogLevel = "" THEN DefaultLogLevel ELSE config.LogLevel

FormatBool(b) == IF b THEN "true" ELSE "false"

MetaSrvBuildArgs(nodeID, bindAddr) ==
    LET a0 == <<"--log-level=" \o LogLevel, kind, "start",
                "--store-addr=" \o config.StoreAddr,
                "--server-addr=" \o config.ServerAddr>>
        a1 == GenerateAddrArg("--http-addr", config.HTTPAddr, nodeID, a0)
        a2 == GenerateAddrArg("--bind-addr", bindAddr, nodeID, a1)
        a3 == IF useMemoryMeta
              THEN GenerateAddrArg("--use-memory-store", FormatBool(useMemoryMeta),
                                   nodeID, a2)
              ELSE a2
    IN IF Len(config.Config) > 0 THEN Append(a3, "-c=" \o config.Config) ELSE a3

FrontendBuildArgs(nodeId) ==
    LET a0 == <<"--log-level=" \o LogLevel, kind, "start",
                "--metasrv-addrs=" \o config.metaSrvAddr>>
        a1 == GenerateAddrArg("--http-addr", config.HTTPAddr, nodeId, a0)
        a2 == GenerateAddrArg("--rpc-addr", config.GRPCAddr, nodeId, a1)
        a3 == GenerateAddrArg("--mysql-addr", config.MysqlAddr, nodeId, a2)
        a4 == GenerateAddrArg("--postgres-addr", config.PostgresAddr, nodeId, a3)
        a5 == IF Len(config.Config) > 0 THEN Append(a4, "-c=" \o config.Config) ELSE a4
    IN IF Len(config.UserProvider) > 0
       THEN Append(a5, "--user-provider=" \o config.UserProvider)
       ELSE a5

\* Start's bindAddr: the configured one, or the default.
StartBindAddr ==
    IF Len(config.BindAddr) > 0 THEN config.BindAddr ELSE DefaultBindAddr

BuildArgs(n) ==
    IF kind = "metasrv" THEN MetaSrvBuildArgs(n, StartBindAddr)
    ELSE FrontendBuildArgs(n)

RunOption(n) ==
    [Name |-> DirName(n), logDir |-> LogDir(n), pidDir |-> PidDir(n),
     args |-> BuildArgs(n)]

(***************************************************************************)
(* Health checks                                                           *)
(***************************************************************************)
StatusOK == 200
OtherStatuses == {503}

\* What http.Get and the later Body.Close can give.
RespOK == [err |-> FALSE, status |-> StatusOK, closeErr |-> FALSE]
RespCloseErr == [err |-> FALSE, status |-> StatusOK, closeErr |-> TRUE]
RespNotOK == {[err |-> FALSE, status |-> st, closeErr |-> FALSE] : st \in OtherStatuses}
RespErr == [err |-> TRUE, status |-> 0, closeErr |-> FALSE]

\* A URL without a host is refused by http.Get before anything is sent.
GetOutcomes(url) ==
    IF url = "http:///health" THEN {RespErr}
    ELSE {RespOK, RespCloseErr, RespErr} \cup RespNotOK

\* ReplicaAddr with the replica index dropped.
ReplicaAddrBase(n) == FormatAddrArg(config.HTTPAddr, 0)

ReplicaAddr(n) == FormatAddrArg(config.HTTPAddr, n)

\* The URL IsRunning requests for replica n; err when the component gives up
\* before requesting anything.
HealthURL(n) ==
    LET addr == ReplicaAddr(n)
    IN IF kind = "metasrv"
       THEN LET hp == SplitHostPort(addr)
            IN [err |-> hp.err, url |-> "http://localhost:" \o hp.port \o "/health"]
       ELSE [err |-> FALSE, url |-> "http://" \o addr \o "/health"]

\* Healthy without the test of the status code.
HealthyAnyStatus(r) == ~r.err /\ ~r.closeErr

\* The checks IsRunning makes on one response.
Healthy(r) == ~r.err /\ r.status = StatusOK /\ ~r.closeErr

(***************************************************************************)
(* Initial state: a component as its constructor leaves it                 *)
(***************************************************************************)
NotReturned == [returned |-> FALSE, value |-> FALSE]
NoFailure == [step |-> "none", idx |-> 0, err |-> "nil"]

Init ==
    /\ kind \in {"metasrv", "frontend"}
    /\ config \in (IF kind = "metasrv" THEN MetaSrvConfigs ELSE FrontendConfigs)
    /\ useMemoryMeta \in (IF kind = "metasrv" THEN BOOLEAN ELSE {FALSE})
    /\ logsDirs = <<>>
    /\ pidsDirs = <<>>
    /\ procs = <<>>
    /\ fs = {WorkingDirs.LogsDir, WorkingDirs.PidsDir}
    /\ op = "none"
    /\ pc = "idle"
    /\ i = 0
    /\ ctxDone = FALSE
    /\ tick = FALSE
    /\ startErr = "none"
    /\ j = 0
    /\ reqs = <<>>
    /\ resps = <<>>
    /\ running = NotReturned
    /\ args = <<>>
    /\ starts = 0
    /\ base = [logs |-> 0, pids |-> 0, procs |-> 0]
    /\ cancelPhase = "none"
    /\ failure = NoFailure
    /\ checked = FALSE

\* The registers of the model that hold what the most recent call did and
\* returned; every call starts from them cleared.
Cleared ==
    /\ i' = 0
    /\ ctxDone' = FALSE
    /\ tick' = FALSE
    /\ startErr' = "none"
    /\ j' = 0
    /\ reqs' = <<>>
    /\ resps' = <<>>
    /\ running' = NotReturned
    /\ base' = [logs |-> Len(logsDirs), pids |-> Len(pidsDirs), procs |-> Len(procs)]
    /\ cancelPhase' = "none"
    /\ failure' = NoFailure
    /\ checked' = FALSE

Static == <<kind, config, useMemoryMeta>>
Dirs == <<logsDirs, pidsDirs, procs, fs>>
Check == <<j, reqs, resps, running, checked>>

(***************************************************************************)
(* Start                                                                   *)
(***************************************************************************)
CtxErr == "context canceled"
StatusCheckErr == "status checking failed: " \o CtxErr

EnsureDirErr(path) == "mkdir " \o path \o ": permission denied"
RunBinaryErr(name) == "start " \o name \o ": exec format error"

\* Where Start goes once replicas 0..n-1 are launched: the next replica, or
\* past the loop (metaSrv: the ticker is made and the select is entered;
\* frontend: return nil).
AfterReplica(n) ==
    IF n < config.Replicas
    THEN /\ pc' = "logdir"
         /\ UNCHANGED <<op, startErr>>
    ELSE IF kind = "metasrv"
         THEN /\ pc' = "select"
              /\ UNCHANGED <<op, startErr>>
         ELSE /\ pc' = "idle"
              /\ op' = "none"
              /\ startErr' = "nil"

\* An error that is noted and not returned: the loop goes on.
ReturnErrSwallowed(step, err) ==
    /\ failure' = [step |-> step, idx |-> i, err |-> err]
    /\ pc' = IF step = "logdir" THEN "piddir" ELSE "spawn"
    /\ UNCHANGED <<op, startErr>>

\* `return err` out of Start's loop.
ReturnErr(step, err) ==
    /\ startErr' = err
    /\ failure' = [step |-> step, idx |-> i, err |-> err]
    /\ pc' = "idle"
    /\ op' = "none"

StartCall(cancelled) ==
    /\ op = "none"
    /\ starts < MaxStarts
    /\ starts' = starts + 1
    /\ i' = 0
    /\ ctxDone' = cancelled
    /\ cancelPhase' = IF cancelled THEN "pre" ELSE "none"
    /\ tick' = FALSE
    /\ base' = [logs |-> Len(logsDirs), pids |-> Len(pidsDirs), procs |-> Len(procs)]
    /\ failure' = NoFailure
    /\ checked' = FALSE
    /\ running' = NotReturned
    /\ reqs' = <<>>
    /\ resps' = <<>>
    /\ args' = <<>>
    /\ IF 0 < config.Replicas
       THEN pc' = "logdir" /\ op' = "Start" /\ startErr' = "none"
       ELSE IF kind = "metasrv"
            THEN pc' = "select" /\ op' = "Start" /\ startErr' = "none"
            ELSE pc' = "idle" /\ op' = "none" /\ startErr' = "nil"
    /\ UNCHANGED <<Static, Dirs, j>>

\* fileutils.EnsureDir(logDir); on success the path is appended to logsDirs.
EnsureLogDir ==
    /\ op = "Start" /\ pc = "logdir"
    /\ \/ /\ fs' = fs \cup {LogDir(i)}
          /\ logsDirs' = Append(logsDirs, LogDir(i))
          /\ pc' = "piddir"
          /\ UNCHANGED <<pidsDirs, procs, op, startErr, failure>>
       \/ /\ ReturnErr("logdir", EnsureDirErr(LogDir(i)))
          /\ UNCHANGED Dirs
    /\ UNCHANGED <<Static, i, ctxDone, tick, Check, args, starts, base, cancelPhase>>

\* EnsurePidDir appending to the wrong list.
EnsurePidDirWrongList ==
    /\ op = "Start" /\ pc = "piddir"
    /\ \/ /\ fs' = fs \cup {PidDir(i)}
          /\ logsDirs' = Append(logsDirs, PidDir(i))
          /\ pc' = "spawn"
          /\ UNCHANGED <<pidsDirs, procs, op, startErr, failure>>
       \/ /\ ReturnErr("piddir", EnsureDirErr(PidDir(i)))
          /\ UNCHANGED Dirs
    /\ UNCHANGED <<Static, i, ctxDone, tick, Check, args, starts, base, cancelPhase>>

\* fileutils.EnsureDir(pidDir); on success the path is appended to pidsDirs.
EnsurePidDir ==
    /\ op = "Start" /\ pc = "piddir"
    /\ \/ /\ fs' = fs \cup {PidDir(i)}
          /\ pidsDirs' = Append(pidsDirs, PidDir(i))
          /\ pc' = "spawn"
          /\ UNCHANGED <<logsDirs, procs, op, startErr, failure>>
       \/ /\ ReturnErr("piddir", EnsureDirErr(PidDir(i)))
          /\ UNCHANGED Dirs
    /\ UNCHANGED <<Static, i, ctxDone, tick, Check, args, starts, base, cancelPhase>>

\* runBinary(ctx, stop, option, wg, logger), then i++ and the loop test.
RunBinary ==
    /\ op = "Start" /\ pc = "spawn"
    /\ \/ /\ procs' = Append(procs, RunOption(i))
          /\ i' = i + 1
          /\ AfterReplica(i + 1)
          /\ UNCHANGED failure
       \/ /\ ReturnErr("spawn", RunBinaryErr(DirName(i)))
          /\ UNCHANGED <<procs, i>>
    /\ UNCHANGED <<Static, logsDirs, pidsDirs, fs, ctxDone, tick, Check, args,
                   starts, base, cancelPhase>>

\* The context given to Start is cancelled (by its owner, or by the stop
\* function that the process runner holds).
Cancel ==
    /\ op = "Start" /\ ~ctxDone
    /\ ctxDone' = TRUE
    /\ cancelPhase' = IF pc \in {"select", "isrunning", "blocked"} THEN "wait" ELSE "launch"
    /\ UNCHANGED <<Static, Dirs, op, pc, i, tick, startErr, Check, args, starts,
                   base, failure>>

\* The ticker made after the loop puts a tick into its channel of capacity 1.
Tick ==
    /\ op = "Start" /\ pc \in {"select", "isrunning", "blocked"}
    /\ ~tick
    /\ tick' = TRUE
    /\ UNCHANGED <<Static, Dirs, op, pc, i, ctxDone, startErr, Check, args, starts,
                   base, cancelPhase, failure>>

\* select: case <-ticker.C, entering m.IsRunning(ctx).
SelectTick ==
    /\ op = "Start" /\ pc = "select"
    /\ tick
    /\ tick' = FALSE
    /\ pc' = "isrunning"
    /\ j' = 0
    /\ reqs' = <<>>
    /\ resps' = <<>>
    /\ running' = NotReturned
    /\ checked' = TRUE
    /\ UNCHANGED <<Static, Dirs, op, i, ctxDone, startErr, args, starts,
                   base, cancelPhase, failure>>

\* select: case <-ctx.Done().
SelectDone ==
    /\ op = "Start" /\ pc = "select"
    /\ ctxDone
    /\ startErr' = StatusCheckErr
    /\ pc' = "idle"
    /\ op' = "none"
    /\ tick' = FALSE
    /\ UNCHANGED <<Static, Dirs, i, ctxDone, Check, args, starts, base, cancelPhase,
                   failure>>

(***************************************************************************)
(* IsRunning                                                               *)
(***************************************************************************)
\* IsRunningReturn with `break CHECKER` taken whatever IsRunning returned.
IsRunningReturnBreak(r) ==
    /\ running' = [returned |-> TRUE, value |-> r]
    /\ pc' = "idle" /\ op' = "none" /\ tick' = FALSE
    /\ IF op = "IsRunning" THEN UNCHANGED startErr ELSE startErr' = "nil"

\* IsRunning returns r: to its caller, or into Start's select loop.
IsRunningReturn(r) ==
    /\ running' = [returned |-> TRUE, value |-> r]
    /\ IF op = "IsRunning"
       THEN pc' = "idle" /\ op' = "none" /\ UNCHANGED <<startErr, tick>>
       ELSE IF r
            THEN pc' = "idle" /\ op' = "none" /\ startErr' = "nil" /\ tick' = FALSE
            ELSE pc' = "select" /\ UNCHANGED <<op, startErr, tick>>

IsRunningCall ==
    /\ op = "none"
    /\ op' = "IsRunning"
    /\ pc' = "isrunning"
    /\ Cleared
    /\ args' = <<>>
    /\ UNCHANGED <<Static, Dirs, starts>>

\* One turn of IsRunning's loop: the address, the GET, the checks.
IsRunningGet ==
    /\ pc = "isrunning" /\ j < config.Replicas
    /\ LET h == HealthURL(j)
       IN IF h.err
          THEN /\ IsRunningReturn(FALSE)
               /\ UNCHANGED <<j, reqs, resps>>
          ELSE /\ reqs' = Append(reqs, h.url)
               /\ \/ \E r \in GetOutcomes(h.url) :
                        /\ resps' = Append(resps, r)
                        /\ IF Healthy(r)
                           THEN /\ j' = j + 1
                                /\ UNCHANGED <<pc, op, startErr, tick, running>>
                           ELSE /\ IsRunningReturn(FALSE)
                                /\ UNCHANGED j
                  \/ \* the endpoint accepts the request and never answers
                     /\ h.url # "http:///health"
                     /\ pc' = "blocked"
                     /\ UNCHANGED <<j, resps, op, startErr, tick, running>>
    /\ UNCHANGED <<Static, Dirs, i, ctxDone, checked, args, starts, base,
                   cancelPhase, failure>>

\* The loop is over: return true.
IsRunningDone ==
    /\ pc = "isrunning" /\ j >= config.Replicas
    /\ IsRunningReturn(TRUE)
    /\ UNCHANGED <<Static, Dirs, i, ctxDone, j, reqs, resps, checked, args, starts,
                   base, cancelPhase, failure>>

(***************************************************************************)
(* BuildArgs called by itself.  It reads the configuration alone, which no  *)
(* method writes, so it is followed on the component as constructed.       *)
(***************************************************************************)
BuildArgsCall(nodeID, bindAddr) ==
    /\ op = "none"
    /\ starts = 0
    /\ args' = IF kind = "metasrv" THEN MetaSrvBuildArgs(nodeID, bindAddr)
               ELSE FrontendBuildArgs(nodeID)
    /\ Cleared
    /\ UNCHANGED <<Static, Dirs, op, pc, starts>>

Next ==
    \/ \E c \in BOOLEAN : StartCall(c)
    \/ EnsureLogDir
    \/ EnsurePidDir
    \/ RunBinary
    \/ Cancel
    \/ Tick
    \/ SelectTick
    \/ SelectDone
    \/ IsRunningCall
    \/ IsRunningGet
    \/ IsRunningDone
    \/ \E n \in 0..MaxReplicas, b \in {DefaultBindAddr, "0.0.0.0:3002"} : BuildArgsCall(n, b)

Spec == Init /\ [][Next]_vars

\* What the Go scheduler, the ticker and the operating system guarantee: a
\* goroutine that can take its next step takes it, and the ticker keeps
\* ticking.  Nothing makes a caller call, a context owner cancel, or a health
\* endpoint answer.
Progress ==
    \/ EnsureLogDir
    \/ EnsurePidDir
    \/ RunBinary
    \/ SelectTick
    \/ SelectDone
    \/ IsRunningGet
    \/ IsRunningDone

\* The behaviours of a metaSrv, the component whose Start waits, up to the
\* return of its first Start and in the calls after it, under that fairness.
\* What is passed on to the replicas does not bear on the wait, so one
\* configuration file is followed.
FairInit == Init /\ kind = "metasrv" /\ config.Config = ""

FirstStart ==
    \/ \E c \in BOOLEAN : starts = 0 /\ StartCall(c)
    \/ EnsureLogDir
    \/ EnsurePidDir
    \/ RunBinary
    \/ Cancel
    \/ Tick
    \/ SelectTick
    \/ SelectDone
    \/ IsRunningCall
    \/ IsRunningGet
    \/ IsRunningDone
    \/ \E n \in 0..MaxReplicas, b \in {DefaultBindAddr, "0.0.0.0:3002"} : BuildArgsCall(n, b)

FairSpec == FairInit /\ [][FirstStart]_vars /\ WF_vars(Progress) /\ WF_vars(Tick)

(***************************************************************************)
(* Properties                                                              *)
(***************************************************************************)
Elems(sq) == {sq[k] : k \in 1..Len(sq)}
Count(sq, x) == Cardinality({k \in 1..Len(sq) : sq[k] = x})
IsPrefix(a, b) == Len(a) <= Len(b) /\ \A k \in 1..Len(a) : a[k] = b[k]

Replicas == 0..(config.Replicas - 1)

\* IsRunning has returned, to its caller or into Start's loop.
IsRunningReturned == running.returned

\* Start has returned.
StartReturned == op = "none" /\ startErr # "none"

\* Replica n's health endpoint answered the GET with 200.
Answered200(n) ==
    n + 1 <= Len(resps) /\ ~resps[n + 1].err /\ resps[n + 1].status = 200

\* C1 as stated: IsRunning returns true if and only if every replica's health
\* endpoint returns HTTP 200.
C1_TrueIffAll200 ==
    IsRunningReturned => (running.value <=> \A n \in Replicas : Answered200(n))

\* C1, amended: IsRunning returns true if and only if every replica's health
\* endpoint returns HTTP 200 with a response body that closes without error;
\* a non-200 status, a transport error or a close error on any replica makes
\* the result false whatever the other replicas answer.
C1_TrueIffAll200AndClosed ==
    IsRunningReturned =>
        (running.value <=> \A n \in Replicas : Answered200(n) /\ ~resps[n + 1].closeErr)

C1_Witness ==
    /\ IsRunningReturned /\ ~running.value
    /\ config.Replicas = 2
    /\ Answered200(0) /\ Answered200(1) /\ resps[2].closeErr

\* The URL of host:port's replica n, as the claim C7 gives it.
URLOf(host, port, n) == "http://" \o host \o ":" \o ToString(port + n) \o "/health"

\* C7 as stated: for both components the health check of replica n is a GET to
\* http://<host>:<port+n>/health, host and port being those of the configured
\* HTTP address.
C7_URLUsesConfiguredHost ==
    \A host \in Hosts, port \in BasePorts :
        config.HTTPAddr = host \o ":" \o ToString(port) =>
            \A k \in 1..Len(reqs) : reqs[k] = URLOf(host, port, k - 1)

\* C7, amended: frontend's health check of replica n is a GET to
\* http://<host>:<port+n>/health; metaSrv's is a GET to
\* http://localhost:<port+n>/health, whatever the configured host is.
C7_URLPerComponent ==
    \A host \in Hosts, port \in BasePorts :
        config.HTTPAddr = host \o ":" \o ToString(port) =>
            \A k \in 1..Len(reqs) :
                reqs[k] = URLOf(IF kind = "metasrv" THEN "localhost" ELSE host,
                                port, k - 1)

C7_Witness ==
    /\ kind = "metasrv" /\ config.HTTPAddr = "127.0.0.1:4000"
    /\ reqs = <<"http://localhost:4000/health", "http://localhost:4001/health">>
    /\ IsRunningReturned /\ running.value

\* The directories the claims name for replica n.
LogDirNamed(n) == "/gt/logs/" \o kind \o "." \o ToString(n)
PidDirNamed(n) == "/gt/pids/" \o kind \o "." \o ToString(n)

\* Start has returned and no directory creation and no spawn failed.
StartReturnedUnfailed == StartReturned /\ failure.step = "none"

\* C4: a Start in which no directory creation and no spawn fails creates the N
\* log directories and the N pid directories <component>.0 .. <component>.(N-1),
\* and no other directory.
C4_ExactlyNDirs ==
    StartReturnedUnfailed =>
        /\ fs = {WorkingDirs.LogsDir, WorkingDirs.PidsDir}
                  \cup {LogDirNamed(n) : n \in Replicas}
                  \cup {PidDirNamed(n) : n \in Replicas}
        /\ Cardinality(fs) = 2 + 2 * config.Replicas
        /\ SubSeq(logsDirs, base.logs + 1, Len(logsDirs))
             = [k \in 1..config.Replicas |-> LogDirNamed(k - 1)]
        /\ SubSeq(pidsDirs, base.pids + 1, Len(pidsDirs))
             = [k \in 1..config.Replicas |-> PidDirNamed(k - 1)]

C4_Witness ==
    /\ StartReturnedUnfailed /\ startErr = "nil"
    /\ config.Replicas = 2
    /\ starts = 1
    /\ Cardinality(fs) = 6

\* C5: when creating replica n's log directory, creating its pid directory or
\* spawning it fails, Start returns that error at once: replica n is spawned
\* only with both its directories made, nothing is made or spawned for a later
\* replica, and metaSrv.Start makes no health check.
C5_FailureAborts ==
    /\ (op = "Start" /\ pc = "spawn") => {LogDirNamed(i), PidDirNamed(i)} \subseteq fs
    /\ (StartReturned /\ failure.step # "none") =>
        LET n == failure.idx
            madeLogs == Len(logsDirs) - base.logs
            madePids == Len(pidsDirs) - base.pids
            spawned == Len(procs) - base.procs
        IN /\ startErr = failure.err
           /\ startErr = CASE failure.step = "logdir" ->
                                "mkdir " \o LogDirNamed(n) \o ": permission denied"
                           [] failure.step = "piddir" ->
                                "mkdir " \o PidDirNamed(n) \o ": permission denied"
                           [] OTHER ->
                                "start " \o kind \o "." \o ToString(n)
                                    \o ": exec format error"
           /\ spawned = n
           /\ madeLogs = IF failure.step = "logdir" THEN n ELSE n + 1
           /\ madePids = IF failure.step = "spawn" THEN n + 1 ELSE n
           /\ \A m \in Replicas :
                m > n => LogDirNamed(m) \notin Elems(logsDirs) \/ starts > 1
           /\ starts = 1 =>
                \A m \in Replicas :
                    m > n => LogDirNamed(m) \notin fs /\ PidDirNamed(m) \notin fs
           /\ ~checked /\ reqs = <<>> /\ running = NotReturned

C5_Witness ==
    /\ StartReturned /\ kind = "metasrv"
    /\ failure.step = "piddir" /\ failure.idx = 1
    /\ config.Replicas = 2
    /\ Len(procs) = 1

\* metaSrv.Start is in its readiness wait: past the loop, not yet returned.
InReadinessWait ==
    kind = "metasrv" /\ op = "Start" /\ pc \in {"select", "isrunning", "blocked"}

\* What the current Start has launched.
Launched == Len(procs) - base.procs

\* C2: metaSrv.Start called with a context that is already cancelled, all
\* replicas launching without error, does not hang and does not return
\* success: it returns the error that names the context's cancellation.
C2_PreCancelledFails ==
    (kind = "metasrv" /\ cancelPhase = "pre" /\ config.Replicas > 0
        /\ Launched = config.Replicas) =>
        /\ pc # "blocked"
        /\ StartReturnedUnfailed => startErr = "status checking failed: context canceled"

\* C3: when the context is cancelled while metaSrv.Start is in its readiness
\* wait, Start fails with the context-cancellation error; it never returns nil
\* after the cancellation.
C3_CancelledInWaitFails ==
    (kind = "metasrv" /\ cancelPhase = "wait" /\ config.Replicas > 0 /\ StartReturned) =>
        startErr = "status checking failed: context canceled"

\* C6: metaSrv.BuildArgs returns --use-memory-store=true if and only if the
\* in-memory-store flag is set, and no -c=... when no configuration file is
\* configured.
C6_MemoryStoreAndConfigFlags ==
    (kind = "metasrv" /\ args # <<>>) =>
        /\ ("--use-memory-store=true" \in Elems(args)) <=> useMemoryMeta
        /\ config.Config = "" =>
              \A c \in ConfigPaths : ("-c=" \o c) \notin Elems(args)

\* C8, the part about states: metaSrv.Start returns nil only after an
\* IsRunning that it started with all N replicas launched returned true, and
\* it makes no health check before the last replica is launched.
C8_State ==
    /\ (kind = "metasrv" /\ StartReturned /\ startErr = "nil") =>
          /\ checked /\ IsRunningReturned /\ running.value
          /\ Launched = config.Replicas
    /\ (op = "Start" /\ (checked \/ pc \in {"isrunning", "blocked"} \/ reqs # <<>>)) =>
          /\ kind = "metasrv"
          /\ i = config.Replicas /\ Launched = config.Replicas

\* C8, the part about steps: a select that is left with the context not
\* cancelled is left into a health check.
C8_Step ==
    (op = "Start" /\ pc = "select" /\ ~ctxDone /\ pc' # "select") =>
        (pc' = "isrunning" /\ checked' /\ ~running'.returned)

\* A health check of the current Start has just returned false.
CheckFailed == InReadinessWait /\ pc = "select" /\ IsRunningReturned /\ ~running.value

\* C8: metaSrv.Start returns nil only if an IsRunning started after all N
\* replicas were launched returned true; no health check precedes the launch of
\* the last replica; a failed check is followed by another check on the next
\* tick unless the context is cancelled.
C8_ReadinessLoop ==
    /\ []C8_State
    /\ [][C8_Step]_vars
    /\ (CheckFailed ~> ((op = "Start" /\ pc = "isrunning") \/ ctxDone))

C8_Witness ==
    /\ kind = "metasrv" /\ StartReturned /\ startErr = "nil"
    /\ config.Replicas = 2 /\ Len(resps) = 2
    /\ cancelPhase = "none"

\* C9: once the context is cancelled during metaSrv.Start's readiness wait,
\* Start returns, even when a health endpoint never answers.
C9_CancelledStartReturns ==
    (InReadinessWait /\ ctxDone /\ cancelPhase = "wait") ~> (op # "Start")

\* C10 as stated, the part about states: allocatedDirs holds each replica's log
\* directory and pid directory at most once, len(pidsDirs) <= len(logsDirs)
\* <= len(pidsDirs) + 1, and no more processes are spawned than len(pidsDirs).
C10_AtMostOncePerReplica ==
    /\ \A n \in Replicas :
          Count(logsDirs, LogDirNamed(n)) <= 1 /\ Count(pidsDirs, PidDirNamed(n)) <= 1
    /\ Len(pidsDirs) <= Len(logsDirs)
    /\ Len(logsDirs) <= Len(pidsDirs) + 1
    /\ Len(procs) <= Len(pidsDirs)

\* C10, amended, the part about states.
C10_State ==
    /\ \A n \in Replicas :
          /\ Count(logsDirs, LogDirNamed(n)) <= starts
          /\ Count(pidsDirs, PidDirNamed(n)) <= starts
    /\ Elems(logsDirs) \subseteq {LogDirNamed(n) : n \in Replicas}
    /\ Elems(pidsDirs) \subseteq {PidDirNamed(n) : n \in Replicas}
    /\ Len(pidsDirs) <= Len(logsDirs)
    /\ Len(logsDirs) <= Len(pidsDirs) + starts
    /\ Len(procs) <= Len(pidsDirs)

\* C10, amended, the part about steps: the lists only grow, and not in IsRunning.
C10_Step ==
    /\ IsPrefix(logsDirs, logsDirs')
    /\ IsPrefix(pidsDirs, pidsDirs')
    /\ (op = "IsRunning" \/ op' = "IsRunning") =>
          (logsDirs' = logsDirs /\ pidsDirs' = pidsDirs)

\* C10, amended: after any sequence of Start and IsRunning calls allocatedDirs
\* only grows (IsRunning leaves it unchanged), holds each replica's log
\* directory and pid directory at most once for every Start called, and
\* len(pidsDirs) <= len(logsDirs) <= len(pidsDirs) + the number of Starts
\* called, with no more processes spawned than len(pidsDirs).
C10_GrowsOncePerStart == []C10_State /\ [][C10_Step]_vars

C10_Witness ==
    /\ starts = 2 /\ op = "none"
    /\ Len(logsDirs) = Len(pidsDirs) + 2
    /\ Count(logsDirs, LogDirNamed(0)) = 2

====
